---- MODULE Spec2Model ----
(***************************************************************************)
(* Model of the piece-lifecycle core of the dfdaemon client:               *)
(*   - PieceSelector (dragonfly-client/src/resource/piece_selector.rs)     *)
(*   - the sync_pieces producer task (src/grpc/dfdaemon.rs)                *)
(*   - the download_piece and download_task handlers (same file)           *)
(*   - the LruCache driven by benches/dragonfly-client-storage             *)
(*   - DfdaemonDownloadServer::run and its unix domain socket              *)
(* Each await point and each access to shared state of the Rust code is a  *)
(* separate step, so that the producer, the consumer and close interleave  *)
(* the way the tokio runtime lets them.                                    *)
(***************************************************************************)
EXTENDS Integers, Sequences, FiniteSets, TLC

(***************************************************************************)
(* Bounds of the model.                                                    *)
(***************************************************************************)
\* The semaphore counter is tracked exactly below MaxPermits and saturates
\* there (tokio allows usize::MAX >> 3 permits).
MaxPermits == 3
\* Number of pieces the consumer is handed before it stops calling select_*.
MaxSelects == 4
\* Length of the interested_piece_numbers list of a sync_pieces request.
MaxInterested == 3
\* Number of poll rounds of a sync_pieces stream that are followed.
MaxRounds == 4
\* Number of download_piece calls the server handles at the same time.
MaxCalls == 2
\* Number of progress events a download_task worker pushes on its stream.
MaxProgress == 3
\* Largest capacity an LruCache is created with.
MaxCapacity == 2
\* Number of puts a cache scenario starts with, number of pops it ends with.
MaxPuts == 3
MaxPops == 3
\* Number of clients that connect to the download server's socket.
MaxClients == 3

\* Piece numbers the collector announces and the peers advertising them.
PieceNumbers == {3, 7, 9}
Parents == {"A", "B"}
ParentSets == {{"A"}, {"B"}}
Modes == {"fifo", "random", "custom"}
\* Piece numbers a sync_pieces request may be interested in.
SyncNumbers == {1, 2, 3}

VARIABLES
    \* PieceSelector fields
    collected_pieces,   \* DashMap<u32, CollectedPiece>: number -> [number, parents]
    is_piece_selected,  \* DashMap<u32, bool>
    available,          \* permits of the Semaphore
    closed,             \* AtomicBool
    \* producer task inside insert()
    p_pc, p_piece,
    \* task inside close()
    k_pc,
    \* consumer task inside select_with()
    c_pc, c_mode, c_base, c_pieces, c_selected,
    c_choice,           \* what the selection closure has just answered
    c_result,           \* what the last select_* call returned
    \* observations
    returned,           \* numbers of the pieces returned by select_*, in order
    ins_order,          \* piece numbers in the order they entered collected_pieces
    p_late, c_late      \* the call in progress began after close() had returned

selVars == <<collected_pieces, is_piece_selected, available, closed,
             p_pc, p_piece, k_pc,
             c_pc, c_mode, c_base, c_pieces, c_selected, c_choice, c_result,
             returned, ins_order, p_late, c_late>>

VARIABLES
    \* the task spawned by sync_pieces
    s_pc,
    s_request,                  \* request.interested_piece_numbers
    interested_piece_numbers,   \* Vec<u32>
    s_idx,                      \* position of the for loop in the Vec
    has_started_piece,
    finished_piece_numbers,     \* Vec<u32>
    s_piece,                    \* piece returned by task.piece.get
    round,                      \* number of the poll round
    \* the mpsc channel behind the response stream
    out_stream,                 \* items sent so far, in order
    tx_open,                    \* out_stream_tx not yet dropped
    rx_alive                    \* the client still holds the stream

syncVars == <<s_pc, s_request, interested_piece_numbers, s_idx, has_started_piece,
              finished_piece_numbers, s_piece, round, out_stream, tx_open, rx_alive>>

VARIABLES
    \* download_piece, one entry per call in progress
    dp_pc,
    dp_number,          \* request.piece_number
    dp_get,             \* outcome of task.piece.get
    dp_open,            \* outcome of download_from_local_peer_into_async_read
    dp_read,            \* outcome of reader.read_to_end
    dp_result           \* what the call returned

dpVars == <<dp_pc, dp_number, dp_get, dp_open, dp_read, dp_result>>

VARIABLES
    \* download_task
    dt_pc,              \* position of the handler
    dt_range,           \* download.range.is_some()
    dt_started,         \* download_task_started returned Ok
    dt_status,          \* what the handler returned
    dt_failed_calls,    \* calls of task.download_task_failed
    dt_finished_calls,  \* calls of task.download_task_finished
    w_pc,               \* position of the spawned worker
    w_result,           \* what download_into_file returned
    dt_stream,          \* items sent on out_stream_tx, in order
    dt_tx_open,         \* a sender of the channel is still held
    dt_received,        \* number of items the client has taken
    dt_calls            \* setup steps the handler has performed, in order

dtVars == <<dt_pc, dt_range, dt_started, dt_status, dt_failed_calls, dt_finished_calls,
            w_pc, w_result, dt_stream, dt_tx_open, dt_received, dt_calls>>

VARIABLES
    \* LruCache
    lru_capacity,       \* 0 until LruCache::new
    lru_entries,        \* <<[key, value]>> from most to least recently used
    lru_op,             \* name of the last operation
    lru_result,         \* what the last operation returned
    lru_evicted,        \* key the last operation evicted, if any
    lru_log             \* operations of a scenario so far, <<[op, key]>>

lruVars == <<lru_capacity, lru_entries, lru_op, lru_result, lru_evicted, lru_log>>

VARIABLES
    \* DfdaemonDownloadServer::run
    u_pc,               \* position of run
    u_file,             \* the socket file exists
    u_signal,           \* a shutdown signal was sent
    u_conn              \* the connection of each client

udsVars == <<u_pc, u_file, u_signal, u_conn>>

vars == <<selVars, syncVars, dpVars, dtVars, lruVars, udsVars>>

(***************************************************************************)
(* Helpers.                                                                *)
(***************************************************************************)
NoPiece == [number |-> 0, parents |-> {}]

\* Option<usize> / Option<CollectedPiece>::None, and "no result yet"
None == -1
Pending == -2

CollectedPiece(n, ps) == [number |-> n, parents |-> ps]

Range(s) == {s[i] : i \in 1..Len(s)}

\* All orders in which an iteration can visit the entries of a set.
Orderings(S) ==
    {f \in [1..Cardinality(S) -> S] : \A i, j \in 1..Cardinality(S) : f[i] = f[j] => i = j}

MapRemove(m, k) == [x \in (DOMAIN m) \ {k} |-> m[x]]

MapInsert(m, k, v) == [x \in (DOMAIN m) \cup {k} |-> IF x = k THEN v ELSE m[x]]

\* Semaphore::add_permits(1)
AddPermit(n) == IF n < MaxPermits THEN n + 1 ELSE MaxPermits

(***************************************************************************)
(* PieceSelector::new                                                      *)
(***************************************************************************)
SelectorNew ==
    /\ collected_pieces = <<>>
    /\ is_piece_selected = <<>>
    /\ available = 0
    /\ closed = FALSE
    /\ p_pc = "idle"
    /\ p_piece = NoPiece
    /\ k_pc = "idle"
    /\ c_pc = "idle"
    /\ c_mode = "none"
    /\ c_base = {}
    /\ c_pieces = <<>>
    /\ c_selected = NoPiece
    /\ c_choice = Pending
    /\ c_result = Pending
    /\ returned = <<>>
    /\ ins_order = <<>>
    /\ p_late = FALSE
    /\ c_late = FALSE

\* Status::internal(..) as an item of the response stream
InternalStatus == -1

\* no piece metadata at hand
NoMetadata == [number |-> 0, state |-> "none"]

\* no sync_pieces request has arrived yet
SyncIdle ==
    /\ s_pc = "idle"
    /\ s_request = <<>>
    /\ interested_piece_numbers = <<>>
    /\ s_idx = 1
    /\ has_started_piece = FALSE
    /\ finished_piece_numbers = <<>>
    /\ s_piece = NoMetadata
    /\ round = 0
    /\ out_stream = <<>>
    /\ tx_open = FALSE
    /\ rx_alive = FALSE

PieceCalls == 1..MaxCalls

\* no download_piece call is in progress
PieceIdle ==
    /\ dp_pc = [c \in PieceCalls |-> "idle"]
    /\ dp_number = [c \in PieceCalls |-> 0]
    /\ dp_get = [c \in PieceCalls |-> "none"]
    /\ dp_open = [c \in PieceCalls |-> "none"]
    /\ dp_read = [c \in PieceCalls |-> "none"]
    /\ dp_result = [c \in PieceCalls |-> "none"]

\* no download_task request has arrived yet
TaskIdle ==
    /\ dt_pc = "idle"
    /\ dt_range = FALSE
    /\ dt_started = FALSE
    /\ dt_status = "none"
    /\ dt_failed_calls = 0
    /\ dt_finished_calls = 0
    /\ w_pc = "none"
    /\ w_result = "none"
    /\ dt_stream = <<>>
    /\ dt_tx_open = FALSE
    /\ dt_received = 0
    /\ dt_calls = <<>>

\* Option::None of a weight, of a key
NoValue == -1
NoKey == ""
\* an operation that returned nothing
Nothing == [some |-> FALSE, key |-> NoKey, value |-> NoValue]

\* no cache has been created yet
LruNone ==
    /\ lru_capacity = 0
    /\ lru_entries = <<>>
    /\ lru_op = "none"
    /\ lru_result = Nothing
    /\ lru_evicted = NoKey
    /\ lru_log = <<>>

Clients == 1..MaxClients

\* run has not been called; there is no socket file
ServerNew ==
    /\ u_pc = "idle"
    /\ u_file = FALSE
    /\ u_signal = FALSE
    /\ u_conn = [c \in Clients |-> "none"]

Init == SelectorNew /\ SyncIdle /\ PieceIdle /\ TaskIdle /\ LruNone /\ ServerNew

(***************************************************************************)
(* PieceSelector::insert, one step per access to shared state.             *)
(***************************************************************************)
pUnchanged ==
    /\ UNCHANGED <<syncVars, dpVars, dtVars, lruVars, udsVars>>
    /\ UNCHANGED <<k_pc, c_pc, c_mode, c_base, c_pieces, c_selected, c_choice, c_result,
                   returned, c_late>>

\* the insert call has returned
InsertDone ==
    /\ p_pc' = "idle"
    /\ p_piece' = NoPiece
    /\ p_late' = FALSE

InsertCall ==
    /\ p_pc = "idle"
    /\ \E n \in PieceNumbers, ps \in ParentSets :
          p_piece' = CollectedPiece(n, ps)
    /\ p_pc' = "check_selected"
    /\ p_late' = (k_pc = "done")
    /\ UNCHANGED <<collected_pieces, is_piece_selected, available, closed, ins_order>>
    /\ pUnchanged

\* variant: only a piece whose flag is true counts as selected
InsertCheckSelected_ByFlag ==
    /\ p_pc = "check_selected"
    /\ IF /\ p_piece.number \in DOMAIN is_piece_selected
          /\ is_piece_selected[p_piece.number]
       THEN InsertDone
       ELSE /\ p_pc' = "get_mut"
            /\ UNCHANGED <<p_piece, p_late>>
    /\ UNCHANGED <<collected_pieces, is_piece_selected, available, closed, ins_order>>
    /\ pUnchanged

\* variant: only a piece that is buffered is dropped
InsertCheckSelected_Buffered ==
    /\ p_pc = "check_selected"
    /\ IF p_piece.number \in DOMAIN collected_pieces
       THEN InsertDone
       ELSE /\ p_pc' = "get_mut"
            /\ UNCHANGED <<p_piece, p_late>>
    /\ UNCHANGED <<collected_pieces, is_piece_selected, available, closed, ins_order>>
    /\ pUnchanged

\* line 37: is_piece_selected.contains_key(&piece.number)
InsertCheckSelected ==
    /\ p_pc = "check_selected"
    /\ IF p_piece.number \in DOMAIN is_piece_selected
       THEN InsertDone
       ELSE /\ p_pc' = "get_mut"
            /\ UNCHANGED <<p_piece, p_late>>
    /\ UNCHANGED <<collected_pieces, is_piece_selected, available, closed, ins_order>>
    /\ pUnchanged

\* lines 41-43: collected_pieces.get_mut(&piece.number), merge under the entry's lock
InsertGetMut ==
    /\ p_pc = "get_mut"
    /\ IF p_piece.number \in DOMAIN collected_pieces
       THEN /\ collected_pieces' =
                  [collected_pieces EXCEPT ![p_piece.number].parents = @ \cup p_piece.parents]
            /\ InsertDone
       ELSE /\ p_pc' = "insert_collected"
            /\ UNCHANGED <<collected_pieces, p_piece, p_late>>
    /\ UNCHANGED <<is_piece_selected, available, closed, ins_order>>
    /\ pUnchanged

\* lines 46-50: collected_pieces.insert(piece.number, CollectedPiece{..})
InsertCollected ==
    /\ p_pc = "insert_collected"
    /\ collected_pieces' = MapInsert(collected_pieces, p_piece.number,
                                     CollectedPiece(p_piece.number, p_piece.parents))
    /\ ins_order' = IF p_piece.number \in Range(ins_order)
                    THEN ins_order ELSE Append(ins_order, p_piece.number)
    /\ p_pc' = "insert_selected"
    /\ UNCHANGED <<is_piece_selected, available, closed, p_piece, p_late>>
    /\ pUnchanged

\* line 52: is_piece_selected.insert(piece.number, false)
InsertSelectedFlag ==
    /\ p_pc = "insert_selected"
    /\ is_piece_selected' = MapInsert(is_piece_selected, p_piece.number, FALSE)
    /\ p_pc' = "add_permits"
    /\ UNCHANGED <<collected_pieces, available, closed, p_piece, ins_order, p_late>>
    /\ pUnchanged

\* variant: the new piece is buffered without a wake-up
InsertAddPermits_NoPermit ==
    /\ p_pc = "add_permits"
    /\ InsertDone
    /\ UNCHANGED <<collected_pieces, is_piece_selected, available, closed, ins_order>>
    /\ pUnchanged

\* line 54: available.add_permits(1), then insert returns
InsertAddPermits ==
    /\ p_pc = "add_permits"
    /\ available' = AddPermit(available)
    /\ InsertDone
    /\ UNCHANGED <<collected_pieces, is_piece_selected, closed, ins_order>>
    /\ pUnchanged

InsertStep ==
    \/ InsertCheckSelected
    \/ InsertGetMut
    \/ InsertCollected
    \/ InsertSelectedFlag
    \/ InsertAddPermits

(***************************************************************************)
(* PieceSelector::close, called once by the owner of the selector when the *)
(* collector has finished.                                                 *)
(***************************************************************************)
kUnchanged ==
    /\ UNCHANGED <<syncVars, dpVars, dtVars, lruVars, udsVars>>
    /\ UNCHANGED <<collected_pieces, is_piece_selected, p_pc, p_piece,
                c_pc, c_mode, c_base, c_pieces, c_selected, c_choice, c_result,
                returned, ins_order, p_late, c_late>>

\* line 62: closed.store(true)
CloseStore ==
    /\ k_pc = "idle"
    /\ closed' = TRUE
    /\ k_pc' = "add_permits"
    /\ UNCHANGED available
    /\ kUnchanged

\* line 64: available.add_permits(1)
CloseAddPermits ==
    /\ k_pc = "add_permits"
    /\ available' = AddPermit(available)
    /\ k_pc' = "done"
    /\ UNCHANGED closed
    /\ kUnchanged

(***************************************************************************)
(* PieceSelector::select_with, select_fifo, select_random.                 *)
(* The _permit acquired at line 85 is a SemaphorePermit: it is not         *)
(* forgotten, so dropping it (at a return, or at the end of a loop         *)
(* iteration) gives the permit back to the semaphore.                      *)
(***************************************************************************)
cUnchanged ==
    /\ UNCHANGED <<syncVars, dpVars, dtVars, lruVars, udsVars>>
    /\ UNCHANGED <<p_pc, p_piece, k_pc, closed, ins_order, p_late>>

\* What the selection closure may answer for a snapshot: None, or a 0-based
\* index.  select_fifo (line 140) and select_random (lines 128-134) fix the
\* closure; a caller of select_with may answer None or any index, also one
\* that is out of range.
Choose(mode, buf) ==
    CASE mode = "fifo"   -> IF Len(buf) = 0 THEN {None} ELSE {0}
      [] mode = "random" -> IF Len(buf) = 0 THEN {None} ELSE 0..(Len(buf) - 1)
      [] OTHER           -> {None} \cup (0..Len(buf))

\* the consumer calls select_fifo, select_random or select_with
SelectCall(mode) ==
    /\ c_pc = "idle"
    /\ Len(returned) < MaxSelects
    /\ c_mode' = mode
    /\ c_result' = Pending
    /\ c_late' = (k_pc = "done")
    /\ c_pc' = "acquire"
    /\ UNCHANGED <<collected_pieces, is_piece_selected, available,
                   c_base, c_pieces, c_selected, returned>>
    /\ c_choice' = Pending
    /\ cUnchanged

\* line 85: available.acquire().await
SelectAcquire ==
    /\ c_pc = "acquire"
    /\ available > 0
    /\ available' = available - 1
    /\ c_pc' = "iter_begin"
    /\ UNCHANGED <<collected_pieces, is_piece_selected,
                   c_mode, c_base, c_pieces, c_selected, c_result, returned>>
    /\ UNCHANGED c_late
    /\ c_choice' = Pending
    /\ cUnchanged

\* line 89: the iteration over the DashMap starts; it is not atomic, entries
\* present now are visited, entries inserted meanwhile may be
SelectIterBegin ==
    /\ c_pc = "iter_begin"
    /\ c_base' = DOMAIN collected_pieces
    /\ c_pc' = "iter_end"
    /\ UNCHANGED <<collected_pieces, is_piece_selected, available,
                   c_mode, c_pieces, c_selected, c_result, returned>>
    /\ UNCHANGED c_late
    /\ c_choice' = Pending
    /\ cUnchanged

\* lines 88-95: the snapshot Vec, in the iteration order of the DashMap
\* (shard and hash order, which is unrelated to the insertion order)
SelectIterEnd ==
    /\ c_pc = "iter_end"
    /\ \E seen \in SUBSET (DOMAIN collected_pieces) :
          /\ c_base \subseteq seen
          /\ \E ord \in Orderings(seen) :
                c_pieces' = [i \in 1..Cardinality(seen) |-> collected_pieces[ord[i]]]
    /\ c_base' = {}
    /\ c_pc' = "choose"
    /\ UNCHANGED <<collected_pieces, is_piece_selected, available,
                   c_mode, c_selected, c_result, returned>>
    /\ UNCHANGED c_late
    /\ c_choice' = Pending
    /\ cUnchanged

\* variant: an index past the end pops the last element of the snapshot
SelectChoose_Clamp ==
    /\ c_pc = "choose"
    /\ \E i \in Choose(c_mode, c_pieces) :
          /\ c_choice' = i
          /\ IF i # None /\ c_pieces # <<>>
             THEN LET j == IF i < Len(c_pieces) THEN i + 1 ELSE Len(c_pieces)
                  IN  /\ c_selected' = c_pieces[j]
                      /\ collected_pieces' = MapRemove(collected_pieces, c_pieces[j].number)
                      /\ c_pc' = "mark_selected"
             ELSE /\ c_pc' = "load_closed"
                  /\ UNCHANGED <<c_selected, collected_pieces>>
    /\ c_pieces' = <<>>
    /\ UNCHANGED <<is_piece_selected, available, c_mode, c_base, c_result, returned>>
    /\ UNCHANGED c_late
    /\ cUnchanged

\* lines 98-103: select(&pieces); an index in range pops the element and
\* removes the piece from collected_pieces.  The snapshot Vec is not read
\* again in this iteration.
SelectChoose ==
    /\ c_pc = "choose"
    /\ \E i \in Choose(c_mode, c_pieces) :
          /\ c_choice' = i
          /\ IF i # None /\ i < Len(c_pieces)
             THEN /\ c_selected' = c_pieces[i + 1]
                  /\ collected_pieces' = MapRemove(collected_pieces, c_pieces[i + 1].number)
                  /\ c_pc' = "mark_selected"
             ELSE /\ c_pc' = "load_closed"
                  /\ UNCHANGED <<c_selected, collected_pieces>>
    /\ c_pieces' = <<>>
    /\ UNCHANGED <<is_piece_selected, available, c_mode, c_base, c_result, returned>>
    /\ UNCHANGED c_late
    /\ cUnchanged

\* line 106: is_piece_selected.insert(piece_number, true)
SelectMarkSelected ==
    /\ c_pc = "mark_selected"
    /\ is_piece_selected' = MapInsert(is_piece_selected, c_selected.number, TRUE)
    /\ c_pc' = "return_some"
    /\ UNCHANGED <<collected_pieces, available,
                   c_mode, c_base, c_pieces, c_selected, c_result, returned>>
    /\ UNCHANGED c_late
    /\ c_choice' = Pending
    /\ cUnchanged

\* line 107: return Some(selected); _permit is dropped
SelectReturnSome ==
    /\ c_pc = "return_some"
    /\ available' = AddPermit(available)
    /\ returned' = Append(returned, c_selected.number)
    /\ c_result' = c_selected.number
    /\ c_selected' = NoPiece
    /\ c_mode' = "none"
    /\ c_late' = FALSE
    /\ c_pc' = "idle"
    /\ UNCHANGED <<collected_pieces, is_piece_selected, c_base, c_pieces>>
    /\ c_choice' = Pending
    /\ cUnchanged

\* variant: the closed flag is not consulted
SelectLoadClosed_Ignore ==
    /\ c_pc = "load_closed"
    /\ c_pc' = "add_permits"
    /\ UNCHANGED <<collected_pieces, is_piece_selected, available,
                   c_mode, c_base, c_pieces, c_selected, c_result, returned>>
    /\ UNCHANGED c_late
    /\ c_choice' = Pending
    /\ cUnchanged

\* variant: an empty buffer ends the call like a closed selector
SelectLoadClosed_OnEmpty ==
    /\ c_pc = "load_closed"
    /\ c_pc' = IF closed \/ DOMAIN collected_pieces = {} THEN "return_none" ELSE "add_permits"
    /\ UNCHANGED <<collected_pieces, is_piece_selected, available,
                   c_mode, c_base, c_pieces, c_selected, c_result, returned>>
    /\ UNCHANGED c_late
    /\ c_choice' = Pending
    /\ cUnchanged

\* line 114: closed.load()
SelectLoadClosed ==
    /\ c_pc = "load_closed"
    /\ c_pc' = IF closed THEN "return_none" ELSE "add_permits"
    /\ UNCHANGED <<collected_pieces, is_piece_selected, available,
                   c_mode, c_base, c_pieces, c_selected, c_result, returned>>
    /\ UNCHANGED c_late
    /\ c_choice' = Pending
    /\ cUnchanged

\* line 115: return None; _permit is dropped
SelectReturnNone ==
    /\ c_pc = "return_none"
    /\ available' = AddPermit(available)
    /\ c_result' = None
    /\ c_mode' = "none"
    /\ c_late' = FALSE
    /\ c_pc' = "idle"
    /\ UNCHANGED <<collected_pieces, is_piece_selected,
                   c_base, c_pieces, c_selected, returned>>
    /\ c_choice' = Pending
    /\ cUnchanged

\* line 119: available.add_permits(1)
SelectAddPermits ==
    /\ c_pc = "add_permits"
    /\ available' = AddPermit(available)
    /\ c_pc' = "yield_now"
    /\ UNCHANGED <<collected_pieces, is_piece_selected,
                   c_mode, c_base, c_pieces, c_selected, c_result, returned>>
    /\ UNCHANGED c_late
    /\ c_choice' = Pending
    /\ cUnchanged

\* lines 122-123: yield_now().await, then the loop body ends and _permit is
\* dropped
SelectYield ==
    /\ c_pc = "yield_now"
    /\ available' = AddPermit(available)
    /\ c_pc' = "acquire"
    /\ UNCHANGED <<collected_pieces, is_piece_selected,
                   c_mode, c_base, c_pieces, c_selected, c_result, returned>>
    /\ UNCHANGED c_late
    /\ c_choice' = Pending
    /\ cUnchanged

SelectStep ==
    \/ SelectAcquire
    \/ SelectIterBegin
    \/ SelectIterEnd
    \/ SelectChoose
    \/ SelectMarkSelected
    \/ SelectReturnSome
    \/ SelectLoadClosed
    \/ SelectReturnNone
    \/ SelectAddPermits
    \/ SelectYield

(***************************************************************************)
(* The selector with its producer, its consumer and close.                 *)
(***************************************************************************)
SelectorNext ==
    \/ InsertCall
    \/ InsertStep
    \/ CloseStore
    \/ CloseAddPermits
    \/ \E mode \in Modes : SelectCall(mode)
    \/ SelectStep

SpecSelector == Init /\ [][SelectorNext]_vars

\* Only select_fifo is called, and inserts and select_fifo calls follow one
\* another: neither is called while the other is in progress.
FifoNext ==
    \/ (c_pc = "idle" /\ InsertCall)
    \/ InsertStep
    \/ CloseStore
    \/ CloseAddPermits
    \/ (p_pc = "idle" /\ SelectCall("fifo"))
    \/ SelectStep

SpecFifo == Init /\ [][FifoNext]_vars

\* close() is called between two inserts and no insert is called after it.
\* The consumer task is scheduled fairly.
DrainNext ==
    \/ (~closed /\ InsertCall)
    \/ InsertStep
    \/ (p_pc = "idle" /\ CloseStore)
    \/ CloseAddPermits
    \/ \E mode \in Modes : SelectCall(mode)
    \/ SelectStep

SpecDrain == Init /\ [][DrainNext]_vars /\ WF_vars(SelectStep)

\* The selector is never closed.  Producer and consumer tasks are scheduled
\* fairly; whether and when they call insert and select_* is up to them.
OpenNext ==
    \/ InsertCall
    \/ InsertStep
    \/ \E mode \in Modes : SelectCall(mode)
    \/ SelectAcquire
    \/ SelectIterBegin
    \/ SelectIterEnd
    \/ SelectChoose
    \/ SelectMarkSelected
    \/ SelectReturnSome
    \/ SelectLoadClosed
    \/ SelectAddPermits
    \/ SelectYield

SpecOpen == Init /\ [][OpenNext]_vars /\ WF_vars(InsertStep) /\ WF_vars(SelectStep)

Quiescent == p_pc = "idle" /\ k_pc \in {"idle", "done"} /\ c_pc = "idle"

Buffered == DOMAIN collected_pieces

(***************************************************************************)
(* Claims about the selector.                                              *)
(***************************************************************************)

\* C1: no piece number is returned by two select_* calls, under every
\* interleaving of insert and select_with steps, also when the producer
\* re-inserts a number that is buffered or was already returned.
C1_AtMostOnce ==
    /\ \A i, j \in 1..Len(returned) : returned[i] = returned[j] => i = j
    /\ c_pc \in {"mark_selected", "return_some"} => c_selected.number \notin Range(returned)

\* a number that was already returned is being re-inserted while the
\* consumer is about to return another piece
C1_Witness ==
    /\ p_pc = "check_selected"
    /\ p_piece.number \in Range(returned)
    /\ c_pc = "return_some"

\* C2: an insert of a number that is buffered merges its parents into the
\* one buffered entry (P1 union P2) and adds no second entry and no second
\* permit.
C2_DedupMerge ==
    [][(/\ p_pc \in {"check_selected", "get_mut"}
        /\ p_pc' = "idle"
        /\ p_piece.number \in Buffered)
       => (/\ DOMAIN collected_pieces' = Buffered
           /\ collected_pieces'[p_piece.number].parents =
                  collected_pieces[p_piece.number].parents \cup p_piece.parents
           /\ available' = available)]_vars

\* C3: when no call is mid-operation, the permits of the semaphore are the
\* number of buffered pieces, plus at most one for a close signal.
C3_PermitCount ==
    (Quiescent /\ available < MaxPermits) =>
        \/ available = Cardinality(Buffered)
        \/ closed /\ available = Cardinality(Buffered) + 1

\* C4: a select_fifo or select_random call made after close(), with no
\* insert after close, returns a buffered piece (each one once) while there
\* is one and the terminal signal once there is none; no select call made
\* after close() blocks forever.
C4_DrainThenTerminate ==
    /\ [](c_late /\ c_mode \in {"fifo", "random"} =>
            /\ c_pc \in {"load_closed", "return_none"} => Buffered = {}
            /\ c_pc \in {"mark_selected", "return_some"} =>
                  c_selected.number \notin Range(returned) \cup Buffered)
    /\ (c_late ~> (c_pc = "idle"))

\* a call made after close() is about to return the terminal signal after
\* the buffer was drained
C4_Witness ==
    /\ c_late
    /\ c_pc = "return_none"
    /\ c_mode = "fifo"
    /\ Len(returned) >= 2

\* C5: an insert call made after close() adds no piece to the buffered map.
C5_NoInsertAfterClose ==
    [][p_late => DOMAIN collected_pieces' \subseteq Buffered]_vars

\* C6: a select_fifo or select_random call pending on an open, empty
\* selector returns a piece once the producer inserts a number that was
\* never inserted before.
C6_NoLostWakeup ==
    (/\ c_pc = "acquire"
     /\ c_mode \in {"fifo", "random"}
     /\ Buffered = {}
     /\ p_pc = "check_selected"
     /\ p_piece.number \notin Range(ins_order))
    ~> (c_pc = "idle" /\ c_result \in PieceNumbers)

\* the consumer is blocked on the semaphore while the producer has buffered
\* a new piece and is about to add its permit
C6_Witness ==
    /\ c_pc = "acquire"
    /\ c_mode = "fifo"
    /\ available = 0
    /\ p_pc = "add_permits"
    /\ p_piece.number \in Buffered

\* C7: select_fifo returns the pieces in the order in which they were
\* inserted, and returns the terminal signal only after close().
C7_FifoOrder ==
    /\ \A i \in 1..Len(returned) : returned[i] = ins_order[i]
    /\ c_result = None => closed

(***************************************************************************)
(* DfdaemonServerHandler::sync_pieces: the producer task of the response   *)
(* stream.  The storage collaborator is the environment: every call of     *)
(* task.piece.get may answer anything.                                     *)
(***************************************************************************)
sUnchanged == UNCHANGED <<selVars, dpVars, dtVars, lruVars, udsVars>>

\* states of a piece found in storage
PieceStates == {"Pending", "Started", "Finished", "Failed"}

\* outcomes of task.piece.get: Err(_), Ok(None), Ok(Some(piece))
GetResults == {"Error", "NotFound"} \cup PieceStates

InterestLists == UNION {[1..k -> SyncNumbers] : k \in 0..MaxInterested}

\* lines 205-221 and 293: the request is taken as it is, the channel is
\* created, the task is spawned and the stream is handed to the client
SyncPieces(list) ==
    /\ s_pc = "idle"
    /\ s_request' = list
    /\ interested_piece_numbers' = list
    /\ tx_open' = TRUE
    /\ rx_alive' = TRUE
    /\ round' = 1
    /\ has_started_piece' = FALSE
    /\ finished_piece_numbers' = <<>>
    /\ s_idx' = 1
    /\ s_pc' = "get"
    /\ UNCHANGED <<s_piece, out_stream>>
    /\ sUnchanged

\* lines 226-243: the next interested piece is looked up in storage
SyncGet(result) ==
    /\ s_pc = "get"
    /\ s_idx <= Len(interested_piece_numbers)
    /\ CASE result = "Error" ->
               /\ s_pc' = "send_error"
               /\ UNCHANGED <<s_idx, s_piece>>
         [] result = "NotFound" ->
               /\ s_idx' = s_idx + 1
               /\ UNCHANGED <<s_pc, s_piece>>
         [] OTHER ->
               /\ s_piece' = [number |-> interested_piece_numbers[s_idx], state |-> result]
               /\ s_pc' = "inspect"
               /\ UNCHANGED s_idx
    /\ UNCHANGED <<interested_piece_numbers, has_started_piece, finished_piece_numbers,
                   round, out_stream, tx_open, rx_alive>>
    /\ UNCHANGED s_request
    /\ sUnchanged

\* variant: a piece that is Started is sent as well
SyncInspect_StartedToo ==
    /\ s_pc = "inspect"
    /\ IF s_piece.state \in {"Finished", "Started"}
       THEN /\ s_pc' = "send"
            /\ UNCHANGED <<s_idx, s_piece, has_started_piece>>
       ELSE /\ has_started_piece' = (has_started_piece \/ s_piece.state = "Started")
            /\ s_piece' = NoMetadata
            /\ s_idx' = s_idx + 1
            /\ s_pc' = "get"
    /\ UNCHANGED <<interested_piece_numbers, finished_piece_numbers,
                   round, out_stream, tx_open, rx_alive>>
    /\ UNCHANGED s_request
    /\ sUnchanged

\* lines 246 and 262-265: piece.is_finished(), piece.is_started()
SyncInspect ==
    /\ s_pc = "inspect"
    /\ IF s_piece.state = "Finished"
       THEN /\ s_pc' = "send"
            /\ UNCHANGED <<s_idx, s_piece, has_started_piece>>
       ELSE /\ has_started_piece' = (has_started_piece \/ s_piece.state = "Started")
            /\ s_piece' = NoMetadata
            /\ s_idx' = s_idx + 1
            /\ s_pc' = "get"
    /\ UNCHANGED <<interested_piece_numbers, finished_piece_numbers,
                   round, out_stream, tx_open, rx_alive>>
    /\ UNCHANGED s_request
    /\ sUnchanged

\* lines 246-259: the finished piece is sent; a failed send is only logged
SyncSend ==
    /\ s_pc = "send"
    /\ out_stream' = IF rx_alive THEN Append(out_stream, s_piece.number) ELSE out_stream
    /\ finished_piece_numbers' = Append(finished_piece_numbers, s_piece.number)
    /\ s_piece' = NoMetadata
    /\ s_idx' = s_idx + 1
    /\ s_pc' = "get"
    /\ UNCHANGED <<interested_piece_numbers, has_started_piece, round, tx_open, rx_alive>>
    /\ UNCHANGED s_request
    /\ sUnchanged

\* variant: the error is sent but the task goes on with the next piece
SyncSendError_Continue ==
    /\ s_pc = "send_error"
    /\ out_stream' = IF rx_alive THEN Append(out_stream, InternalStatus) ELSE out_stream
    /\ s_idx' = s_idx + 1
    /\ s_pc' = "get"
    /\ UNCHANGED <<interested_piece_numbers, has_started_piece, tx_open,
                   finished_piece_numbers, s_piece, round, rx_alive>>
    /\ UNCHANGED s_request
    /\ sUnchanged

\* lines 231-242: the error is sent, the sender is dropped, the task returns
SyncSendError ==
    /\ s_pc = "send_error"
    /\ out_stream' = IF rx_alive THEN Append(out_stream, InternalStatus) ELSE out_stream
    /\ tx_open' = FALSE
    /\ s_pc' = "done"
    /\ UNCHANGED <<interested_piece_numbers, s_idx, has_started_piece,
                   finished_piece_numbers, s_piece, round, rx_alive>>
    /\ UNCHANGED s_request
    /\ sUnchanged

\* Vec::retain(|number| !finished_piece_numbers.contains(number))
Retain(numbers, finished) ==
    SelectSeq(numbers, LAMBDA number : number \notin Range(finished))

\* lines 268-270: the for loop is over; finished pieces leave the interest list
SyncRetain ==
    /\ s_pc = "get"
    /\ s_idx > Len(interested_piece_numbers)
    /\ interested_piece_numbers' = Retain(interested_piece_numbers, finished_piece_numbers)
    /\ s_pc' = "check_empty"
    /\ UNCHANGED <<s_idx, has_started_piece, finished_piece_numbers, s_piece, round,
                   out_stream, tx_open, rx_alive>>
    /\ UNCHANGED s_request
    /\ sUnchanged

\* lines 273-277: all the interested pieces are finished
SyncCheckEmpty ==
    /\ s_pc = "check_empty"
    /\ IF interested_piece_numbers = <<>>
       THEN s_pc' = "done" /\ tx_open' = FALSE
       ELSE s_pc' = "check_started" /\ UNCHANGED tx_open
    /\ UNCHANGED <<interested_piece_numbers, s_idx, has_started_piece,
                   finished_piece_numbers, s_piece, round, out_stream, rx_alive>>
    /\ UNCHANGED s_request
    /\ sUnchanged

\* variant: the stream keeps polling as long as pieces are missing
SyncCheckStarted_KeepPolling ==
    /\ s_pc = "check_started"
    /\ s_pc' = "sleep"
    /\ UNCHANGED <<interested_piece_numbers, s_idx, has_started_piece,
                   finished_piece_numbers, s_piece, round, out_stream, tx_open, rx_alive>>
    /\ UNCHANGED s_request
    /\ sUnchanged

\* lines 280-284: there is no started piece
SyncCheckStarted ==
    /\ s_pc = "check_started"
    /\ IF ~has_started_piece
       THEN s_pc' = "done" /\ tx_open' = FALSE
       ELSE s_pc' = "sleep" /\ UNCHANGED tx_open
    /\ UNCHANGED <<interested_piece_numbers, s_idx, has_started_piece,
                   finished_piece_numbers, s_piece, round, out_stream, rx_alive>>
    /\ UNCHANGED s_request
    /\ sUnchanged

\* variant: finished_piece_numbers is not renewed at the start of a round
SyncSleep_KeepFinished ==
    /\ s_pc = "sleep"
    /\ round < MaxRounds
    /\ round' = round + 1
    /\ has_started_piece' = FALSE
    /\ s_idx' = 1
    /\ s_pc' = "get"
    /\ UNCHANGED <<interested_piece_numbers, finished_piece_numbers, s_piece,
                   out_stream, tx_open, rx_alive>>
    /\ UNCHANGED s_request
    /\ sUnchanged

\* line 287 and lines 224-225: sleep, then the next round starts
SyncSleep ==
    /\ s_pc = "sleep"
    /\ round < MaxRounds
    /\ round' = round + 1
    /\ has_started_piece' = FALSE
    /\ finished_piece_numbers' = <<>>
    /\ s_idx' = 1
    /\ s_pc' = "get"
    /\ UNCHANGED <<interested_piece_numbers, s_piece, out_stream, tx_open, rx_alive>>
    /\ UNCHANGED s_request
    /\ sUnchanged

\* the client goes away: the receiving end of the channel is dropped
ClientDrop ==
    /\ s_pc # "idle"
    /\ rx_alive
    /\ rx_alive' = FALSE
    /\ UNCHANGED <<s_pc, interested_piece_numbers, s_idx, has_started_piece,
                   finished_piece_numbers, s_piece, round, out_stream, tx_open>>
    /\ UNCHANGED s_request
    /\ sUnchanged

SyncNext ==
    \/ \E list \in InterestLists : SyncPieces(list)
    \/ \E result \in GetResults : SyncGet(result)
    \/ SyncInspect
    \/ SyncSend
    \/ SyncSendError
    \/ SyncRetain
    \/ SyncCheckEmpty
    \/ SyncCheckStarted
    \/ SyncSleep
    \/ ClientDrop

SpecSync == Init /\ [][SyncNext]_vars

\* Storage of the scenario "SyncPieces mid-stream finish": what get answers
\* for a piece in a poll round.
ScenarioStorage(r, n) ==
    CASE r = 1 -> IF n = 1 THEN "Started" ELSE "Pending"
      [] r = 2 -> IF n = 1 THEN "Finished" ELSE IF n = 2 THEN "Started" ELSE "Pending"
      [] r = 3 -> IF n = 3 THEN "Pending" ELSE "Finished"
      [] OTHER -> "Finished"

\* The request lists the interest set {1,2,3} in some order, the client
\* keeps the stream, and storage follows the scenario.
ScenarioNext ==
    \/ \E list \in Orderings({1, 2, 3}) : SyncPieces(list)
    \/ /\ s_pc = "get"
       /\ s_idx <= Len(interested_piece_numbers)
       /\ SyncGet(ScenarioStorage(round, interested_piece_numbers[s_idx]))
    \/ SyncInspect
    \/ SyncSend
    \/ SyncRetain
    \/ SyncCheckEmpty
    \/ SyncCheckStarted
    \/ SyncSleep

SpecScenario == Init /\ [][ScenarioNext]_vars

Emitted == SelectSeq(out_stream, LAMBDA item : item # InternalStatus)

(***************************************************************************)
(* Claims about sync_pieces.                                               *)
(***************************************************************************)

\* C8: whatever the interested_piece_numbers list of the request is, each
\* piece number is emitted at most once on the stream.
C8_SingleEmission ==
    \A i, j \in 1..Len(Emitted) : Emitted[i] = Emitted[j] => i = j

\* C9 as stated: in the scenario the stream emits 1, 2, 3 and then closes
\* normally.
C9_Emits123 ==
    s_pc = "done" => out_stream = <<1, 2, 3>>

\* C9 as amended: in the scenario the stream emits 1, 2 and closes normally
\* after round 3, in which piece 3 is Pending and no piece is Started.
C9_Emits12 ==
    s_pc = "done" =>
        /\ out_stream = <<1, 2>>
        /\ round = 3
        /\ interested_piece_numbers = <<3>>
        /\ ~tx_open

\* the stream of the scenario has closed
C9_Witness ==
    /\ s_pc = "done"
    /\ round = 3
    /\ interested_piece_numbers = <<3>>

\* C10: a poll round that ends with a non-empty interest list and no piece
\* observed Started closes the stream without an error item and without
\* another poll; a first round that saw no piece Finished or Started has
\* emitted nothing.
C10_NoProgressClose ==
    /\ [][(/\ s_pc = "check_started"
            /\ interested_piece_numbers # <<>>
            /\ ~has_started_piece
            /\ s_pc' # s_pc)
           => (/\ s_pc' = "done"
               /\ ~tx_open'
               /\ out_stream' = out_stream
               /\ round' = round)]_vars
    /\ [](/\ s_pc = "check_started"
           /\ round = 1
           /\ finished_piece_numbers = <<>>
           => out_stream = <<>>)

\* the stream closed after its first round with pieces missing and nothing
\* emitted
C10_Witness ==
    /\ s_pc = "done"
    /\ round = 1
    /\ interested_piece_numbers # <<>>
    /\ out_stream = <<>>
    /\ rx_alive

\* C11: an item is put on the stream only by the send of a piece that storage
\* has just reported Finished and whose number is the current element of the
\* interest list (hence of the request), or by the send of the storage error;
\* a piece that is not found, Pending, Started or Failed adds nothing.
C11_OnlyFinishedEmitted ==
    /\ [](/\ Range(interested_piece_numbers) \subseteq Range(s_request)
          /\ Range(Emitted) \subseteq Range(s_request)
          /\ s_pc \in {"inspect", "send"} =>
                 s_piece.number = interested_piece_numbers[s_idx])
    /\ [][out_stream' # out_stream =>
            \/ /\ s_pc = "send_error"
               /\ out_stream' = Append(out_stream, InternalStatus)
            \/ /\ s_pc = "send"
               /\ s_piece.state = "Finished"
               /\ s_piece.number \in Range(s_request)
               /\ out_stream' = Append(out_stream, s_piece.number)]_vars

\* a closed stream that emitted one piece and left another one of the request
\* out, after a second round
C11_Witness ==
    /\ s_pc = "done"
    /\ round >= 2
    /\ Len(Emitted) = 1
    /\ Range(s_request) \ Range(Emitted) # {}

\* C12: with the client connected, the send of a storage error appends one
\* Internal status behind the events already emitted and ends the task; the
\* status is only ever the last item and nothing follows it.
C12_ErrorIsLast ==
    /\ [](\A i \in 1..Len(out_stream) :
             out_stream[i] = InternalStatus =>
                 i = Len(out_stream) /\ s_pc = "done" /\ ~tx_open)
    /\ [][(s_pc = "get" /\ s_pc' = "send_error") => UNCHANGED out_stream]_vars
    /\ [][(s_pc = "send_error" /\ s_pc' # s_pc /\ rx_alive) =>
            /\ out_stream' = Append(out_stream, InternalStatus)
            /\ s_pc' = "done"
            /\ ~tx_open']_vars
    /\ [][s_pc = "done" => (s_pc' = "done" /\ UNCHANGED out_stream)]_vars

\* an error delivered behind two piece events
C12_Witness ==
    /\ Len(out_stream) = 3
    /\ out_stream[3] = InternalStatus
    /\ Len(Emitted) = 2
    /\ s_pc = "done"

\* C13: once the client is gone, the step that performs the failing send ends
\* the task.
C13_ExitOnFailedSend ==
    [][(s_pc = "send" /\ ~rx_alive /\ s_pc' # s_pc) => s_pc' = "done"]_vars

\* a step of the producer task (the client's drop is not one)
SyncTaskStep == s_pc' # s_pc \/ s_idx' # s_idx

\* C14: a step of the task ends it exactly when it is the send of a storage
\* error, or the check of a round that left no interested piece, or the check
\* of a round that saw no Started piece; a round that saw a Started piece goes
\* to sleep and on to the next round, and the stream stays open meanwhile.
C14_TerminatesIff ==
    /\ [][SyncTaskStep =>
            ((s_pc # "done" /\ s_pc' = "done") <=>
                 \/ s_pc = "send_error"
                 \/ s_pc = "check_empty" /\ interested_piece_numbers = <<>>
                 \/ s_pc = "check_started" /\ ~has_started_piece)]_vars
    /\ [][(SyncTaskStep /\ s_pc = "check_started" /\ has_started_piece) =>
            s_pc' = "sleep"]_vars
    /\ [][(SyncTaskStep /\ s_pc = "sleep") =>
            (s_pc' = "get" /\ round' = round + 1 /\ tx_open')]_vars
    /\ [](s_pc \notin {"idle", "done"} => tx_open)
    /\ [](s_pc = "done" => ~tx_open)

\* a Started piece was seen in each of three rounds and the stream is open
C14_Witness ==
    /\ s_pc = "sleep"
    /\ round >= 3
    /\ has_started_piece
    /\ rx_alive
    /\ tx_open
    /\ Emitted = <<>>

\* a is b with some elements left out, the order kept
RECURSIVE IsSubseq(_, _)
IsSubseq(a, b) ==
    IF a = <<>> THEN TRUE
    ELSE IF b = <<>> THEN FALSE
    ELSE IF Head(a) = Head(b) THEN IsSubseq(Tail(a), Tail(b))
    ELSE IsSubseq(a, Tail(b))

\* C15: the stream only grows at its end; within a round the pieces sent so
\* far are the last items of the stream and follow the order of the part of
\* the interest list that has been visited.
C15_ObservationOrder ==
    /\ [][out_stream' # out_stream =>
            \E item \in SyncNumbers \cup {InternalStatus} :
                out_stream' = Append(out_stream, item)]_vars
    /\ [](s_pc \in {"get", "inspect", "send", "send_error"} =>
             IsSubseq(finished_piece_numbers,
                      SubSeq(interested_piece_numbers, 1, s_idx - 1)))
    /\ [](rx_alive /\ s_pc # "idle" =>
             /\ Len(finished_piece_numbers) <= Len(Emitted)
             /\ SubSeq(Emitted, Len(Emitted) - Len(finished_piece_numbers) + 1,
                       Len(Emitted)) = finished_piece_numbers)

\* one piece sent in the first round, two more in a later round
C15_Witness ==
    /\ rx_alive
    /\ round >= 2
    /\ Len(Emitted) = 3
    /\ Len(finished_piece_numbers) = 2
    /\ finished_piece_numbers[1] # finished_piece_numbers[2]

(***************************************************************************)
(* DfdaemonServerHandler::download_piece.  The server runs the handler of  *)
(* each request on its own; storage is the environment.                    *)
(***************************************************************************)
dpUnchanged == UNCHANGED <<selVars, syncVars, dtVars, lruVars, udsVars>>

\* outcomes of task.piece.get: Err(_), Ok(None), Ok(Some(piece))
LookupResults == {"Err", "Missing", "Found"}
\* outcomes of a fallible call
CallResults == {"Err", "Ok"}

\* lines 298-318: a request arrives
DownloadPiece(c, number) ==
    /\ dp_pc[c] = "idle"
    /\ dp_pc' = [dp_pc EXCEPT ![c] = "get"]
    /\ dp_number' = [dp_number EXCEPT ![c] = number]
    /\ UNCHANGED <<dp_get, dp_open, dp_read, dp_result>>
    /\ dpUnchanged

\* variant: missing metadata is reported like a failed lookup
PieceGet_MissingInternal(c, outcome) ==
    /\ dp_pc[c] = "get"
    /\ dp_get' = [dp_get EXCEPT ![c] = outcome]
    /\ IF outcome = "Found"
       THEN /\ dp_pc' = [dp_pc EXCEPT ![c] = "open"]
            /\ UNCHANGED dp_result
       ELSE /\ dp_result' = [dp_result EXCEPT ![c] = "Internal"]
            /\ dp_pc' = [dp_pc EXCEPT ![c] = "done"]
    /\ UNCHANGED <<dp_number, dp_open, dp_read>>
    /\ dpUnchanged

\* lines 320-331: the metadata lookup and its two early returns
PieceGet(c, outcome) ==
    /\ dp_pc[c] = "get"
    /\ dp_get' = [dp_get EXCEPT ![c] = outcome]
    /\ CASE outcome = "Err" ->
               /\ dp_result' = [dp_result EXCEPT ![c] = "Internal"]
               /\ dp_pc' = [dp_pc EXCEPT ![c] = "done"]
         [] outcome = "Missing" ->
               /\ dp_result' = [dp_result EXCEPT ![c] = "NotFound"]
               /\ dp_pc' = [dp_pc EXCEPT ![c] = "done"]
         [] OTHER ->
               /\ dp_pc' = [dp_pc EXCEPT ![c] = "open"]
               /\ UNCHANGED dp_result
    /\ UNCHANGED <<dp_number, dp_open, dp_read>>
    /\ dpUnchanged

\* lines 333-341: the reader of the piece is opened
PieceOpen(c, outcome) ==
    /\ dp_pc[c] = "open"
    /\ dp_open' = [dp_open EXCEPT ![c] = outcome]
    /\ IF outcome = "Err"
       THEN /\ dp_result' = [dp_result EXCEPT ![c] = "Internal"]
            /\ dp_pc' = [dp_pc EXCEPT ![c] = "done"]
       ELSE /\ dp_pc' = [dp_pc EXCEPT ![c] = "read"]
            /\ UNCHANGED dp_result
    /\ UNCHANGED <<dp_number, dp_get, dp_read>>
    /\ dpUnchanged

\* lines 343-363: the content is read to the end and the response returned
PieceRead(c, outcome) ==
    /\ dp_pc[c] = "read"
    /\ dp_read' = [dp_read EXCEPT ![c] = outcome]
    /\ dp_result' = [dp_result EXCEPT ![c] = IF outcome = "Err" THEN "Internal" ELSE "Ok"]
    /\ dp_pc' = [dp_pc EXCEPT ![c] = "done"]
    /\ UNCHANGED <<dp_number, dp_get, dp_open>>
    /\ dpUnchanged

PieceNext ==
    \/ \E c \in PieceCalls, number \in SyncNumbers : DownloadPiece(c, number)
    \/ \E c \in PieceCalls, outcome \in LookupResults : PieceGet(c, outcome)
    \/ \E c \in PieceCalls, outcome \in CallResults : PieceOpen(c, outcome)
    \/ \E c \in PieceCalls, outcome \in CallResults : PieceRead(c, outcome)

SpecPiece == Init /\ [][PieceNext]_vars

\* C16: a call has a result exactly when it is over; the result is Internal
\* after a failed lookup, NotFound after a lookup without metadata, Internal
\* after a failed open or read, Ok after all three succeeded; the reader is
\* opened only after metadata was found and read only after it was opened.
C16_PieceErrorMapping ==
    \A c \in PieceCalls :
        /\ dp_result[c] # "none" <=> dp_pc[c] = "done"
        /\ dp_open[c] # "none" => dp_get[c] = "Found"
        /\ dp_read[c] # "none" => dp_open[c] = "Ok"
        /\ dp_pc[c] = "done" =>
               dp_result[c] = CASE dp_get[c] = "Err" -> "Internal"
                                [] dp_get[c] = "Missing" -> "NotFound"
                                [] dp_open[c] = "Err" -> "Internal"
                                [] dp_read[c] = "Err" -> "Internal"
                                [] OTHER -> "Ok"
        /\ dp_result[c] = "Ok" <=>
               (dp_get[c] = "Found" /\ dp_open[c] = "Ok" /\ dp_read[c] = "Ok")

\* one call ended without metadata, another one delivered its piece
C16_Witness ==
    \E c, d \in PieceCalls :
        /\ dp_get[c] = "Missing" /\ dp_result[c] = "NotFound"
        /\ dp_read[d] = "Ok" /\ dp_result[d] = "Ok"

(***************************************************************************)
(* DfdaemonServerHandler::download_task: the handler up to the return of   *)
(* the response stream, and the worker it spawns.  The task manager is the *)
(* environment: each of its calls may succeed or fail.                     *)
(***************************************************************************)
dtUnchanged == UNCHANGED <<selVars, syncVars, dpVars, lruVars, udsVars>>

\* items of the response stream
ProgressItem == "progress"
ErrorItem == "error"

\* lines 371-381: a request arrives; a request without download is refused
DownloadTask(has_download, range) ==
    /\ dt_pc = "idle"
    /\ IF has_download
       THEN /\ dt_pc' = "task_id"
            /\ dt_range' = range
            /\ UNCHANGED dt_status
       ELSE /\ dt_pc' = "returned"
            /\ dt_status' = "InvalidArgument"
            /\ UNCHANGED dt_range
    /\ UNCHANGED <<dt_started, dt_failed_calls, dt_finished_calls, w_pc, w_result,
                   dt_stream, dt_tx_open, dt_received>>
    /\ UNCHANGED dt_calls
    /\ dtUnchanged

\* lines 383-404: the task id is generated
TaskId(outcome) ==
    /\ dt_pc = "task_id"
    /\ IF outcome = "Err"
       THEN dt_pc' = "returned" /\ dt_status' = "InvalidArgument"
       ELSE dt_pc' = "started" /\ UNCHANGED dt_status
    /\ UNCHANGED <<dt_range, dt_started, dt_failed_calls, dt_finished_calls, w_pc,
                   w_result, dt_stream, dt_tx_open, dt_received>>
    /\ dt_calls' = Append(dt_calls, "task_id")
    /\ dtUnchanged

\* variant: a failed started notification is not looked at
TaskStarted_IgnoreError(outcome) ==
    /\ dt_pc = "started"
    /\ dt_pc' = "header"
    /\ dt_started' = (outcome = "Ok")
    /\ UNCHANGED <<dt_range, dt_status, dt_failed_calls, dt_finished_calls, w_pc, w_result,
                   dt_stream, dt_tx_open, dt_received>>
    /\ dt_calls' = Append(dt_calls, "download_task_started")
    /\ dtUnchanged

\* lines 410-417: task.download_task_started
TaskStarted(outcome) ==
    /\ dt_pc = "started"
    /\ IF outcome = "Err"
       THEN dt_pc' = "returned" /\ dt_status' = "Internal" /\ UNCHANGED dt_started
       ELSE dt_pc' = "header" /\ dt_started' = TRUE /\ UNCHANGED dt_status
    /\ UNCHANGED <<dt_range, dt_failed_calls, dt_finished_calls, w_pc, w_result,
                   dt_stream, dt_tx_open, dt_received>>
    /\ dt_calls' = Append(dt_calls, "download_task_started")
    /\ dtUnchanged

\* lines 419-423: hashmap_to_headermap
TaskHeader(outcome) ==
    /\ dt_pc = "header"
    /\ IF outcome = "Err"
       THEN dt_pc' = "returned" /\ dt_status' = "InvalidArgument"
       ELSE dt_pc' = "content_length" /\ UNCHANGED dt_status
    /\ UNCHANGED <<dt_range, dt_started, dt_failed_calls, dt_finished_calls, w_pc,
                   w_result, dt_stream, dt_tx_open, dt_received>>
    /\ dt_calls' = Append(dt_calls, "hashmap_to_headermap")
    /\ dtUnchanged

\* variant: after a failed probe the task is marked failed but the handler
\* goes on
TaskContentLength_NoReturn(outcome) ==
    /\ dt_pc = "content_length"
    /\ dt_failed_calls' = IF outcome = "Err" THEN dt_failed_calls + 1 ELSE dt_failed_calls
    /\ dt_pc' = "spawn"
    /\ UNCHANGED <<dt_range, dt_started, dt_status, dt_finished_calls, w_pc, w_result,
                   dt_stream, dt_tx_open, dt_received>>
    /\ dt_calls' = Append(dt_calls, "get_content_length")
    /\ dtUnchanged

\* lines 425-440: task.get_content_length; a failure marks the task failed
TaskContentLength(outcome) ==
    /\ dt_pc = "content_length"
    /\ IF outcome = "Err"
       THEN /\ dt_failed_calls' = dt_failed_calls + 1
            /\ dt_pc' = "returned"
            /\ dt_status' = "Internal"
       ELSE /\ dt_pc' = "spawn"
            /\ UNCHANGED <<dt_failed_calls, dt_status>>
    /\ UNCHANGED <<dt_range, dt_started, dt_finished_calls, w_pc, w_result,
                   dt_stream, dt_tx_open, dt_received>>
    /\ dt_calls' = Append(dt_calls, "get_content_length")
    /\ dtUnchanged

\* lines 446-448 and 491: the channel is made, the worker spawned, the
\* receiving end returned as the response
TaskSpawn ==
    /\ dt_pc = "spawn"
    /\ dt_tx_open' = TRUE
    /\ w_pc' = "download"
    /\ dt_pc' = "returned"
    /\ dt_status' = "Stream"
    /\ UNCHANGED <<dt_range, dt_started, dt_failed_calls, dt_finished_calls, w_result,
                   dt_stream, dt_received>>
    /\ dt_calls' = Append(dt_calls, "spawn")
    /\ dtUnchanged

\* download_into_file pushes a progress event on its clone of the sender
WorkerProgress ==
    /\ w_pc = "download"
    /\ Len(dt_stream) < MaxProgress
    /\ dt_stream' = Append(dt_stream, ProgressItem)
    /\ UNCHANGED <<dt_pc, dt_range, dt_started, dt_status, dt_failed_calls,
                   dt_finished_calls, w_pc, w_result, dt_tx_open, dt_received>>
    /\ UNCHANGED dt_calls
    /\ dtUnchanged

\* lines 450-462 and 474: download_into_file returns
WorkerDownload(outcome) ==
    /\ w_pc = "download"
    /\ w_result' = outcome
    /\ w_pc' = IF outcome = "Ok" THEN "succeeded" ELSE "failed"
    /\ UNCHANGED <<dt_pc, dt_range, dt_started, dt_status, dt_failed_calls,
                   dt_finished_calls, dt_stream, dt_tx_open, dt_received>>
    /\ UNCHANGED dt_calls
    /\ dtUnchanged

\* variant: the task is marked finished whether or not a range was asked for
WorkerSucceeded_AlwaysFinished ==
    /\ w_pc = "succeeded"
    /\ dt_finished_calls' = dt_finished_calls + 1
    /\ dt_tx_open' = FALSE
    /\ w_pc' = "done"
    /\ UNCHANGED <<dt_pc, dt_range, dt_started, dt_status, dt_failed_calls, w_result,
                   dt_stream, dt_received>>
    /\ UNCHANGED dt_calls
    /\ dtUnchanged

\* lines 462-473 and 486: without a range the task is marked finished and the
\* worker returns; with a range it only drops the sender
WorkerSucceeded ==
    /\ w_pc = "succeeded"
    /\ dt_finished_calls' = IF dt_range THEN dt_finished_calls ELSE dt_finished_calls + 1
    /\ dt_tx_open' = FALSE
    /\ w_pc' = "done"
    /\ UNCHANGED <<dt_pc, dt_range, dt_started, dt_status, dt_failed_calls, w_result,
                   dt_stream, dt_received>>
    /\ UNCHANGED dt_calls
    /\ dtUnchanged

\* lines 474-486: the task is marked failed and the sender dropped
WorkerFailed ==
    /\ w_pc = "failed"
    /\ dt_failed_calls' = dt_failed_calls + 1
    /\ dt_tx_open' = FALSE
    /\ w_pc' = "done"
    /\ UNCHANGED <<dt_pc, dt_range, dt_started, dt_status, dt_finished_calls, w_result,
                   dt_stream, dt_received>>
    /\ UNCHANGED dt_calls
    /\ dtUnchanged

\* line 491: the client takes the next item of the ReceiverStream
ClientReceive ==
    /\ dt_status = "Stream"
    /\ dt_received < Len(dt_stream)
    /\ dt_received' = dt_received + 1
    /\ UNCHANGED <<dt_pc, dt_range, dt_started, dt_status, dt_failed_calls,
                   dt_finished_calls, w_pc, w_result, dt_stream, dt_tx_open>>
    /\ UNCHANGED dt_calls
    /\ dtUnchanged

TaskNext ==
    \/ \E has_download, range \in BOOLEAN : DownloadTask(has_download, range)
    \/ \E outcome \in CallResults : TaskId(outcome)
    \/ \E outcome \in CallResults : TaskStarted(outcome)
    \/ \E outcome \in CallResults : TaskHeader(outcome)
    \/ \E outcome \in CallResults : TaskContentLength(outcome)
    \/ TaskSpawn
    \/ WorkerProgress
    \/ \E outcome \in CallResults : WorkerDownload(outcome)
    \/ WorkerSucceeded
    \/ WorkerFailed
    \/ ClientReceive

SpecTask == Init /\ [][TaskNext]_vars

\* the call returned an error status after the started notification succeeded
HandlerFailedAfterStart ==
    /\ dt_started
    /\ dt_pc = "returned"
    /\ dt_status \in {"InvalidArgument", "Internal"}

\* the worker is over and its download failed
WorkerEndedFailed == w_pc = "done" /\ w_result = "Err"

\* the worker is over and its download succeeded
WorkerEndedSucceeded == w_pc = "done" /\ w_result = "Ok"

\* C17: a call that failed after its started notification succeeded, in the
\* handler or in the worker, has called download_task_failed by its end.
C17_FailureRecorded ==
    (HandlerFailedAfterStart \/ WorkerEndedFailed) => dt_failed_calls >= 1

\* C18: after a successful download the worker has called
\* download_task_finished once if the request had no range and not at all if
\* it had one, download_task_failed was not called, the sender is dropped and
\* no item of the stream is an error.
C18_WorkerSuccess ==
    WorkerEndedSucceeded =>
        /\ dt_finished_calls = (IF dt_range THEN 0 ELSE 1)
        /\ dt_failed_calls = 0
        /\ ~dt_tx_open
        /\ \A i \in 1..Len(dt_stream) : dt_stream[i] = ProgressItem

\* a range download that succeeded and whose events the client has taken
C18_Witness ==
    /\ WorkerEndedSucceeded
    /\ dt_range
    /\ Len(dt_stream) >= 2
    /\ dt_received = Len(dt_stream)

\* C19: after a failed download the last item of the closed stream is an
\* error status.
C19_ErrorItemSent ==
    WorkerEndedFailed =>
        /\ dt_stream # <<>>
        /\ dt_stream[Len(dt_stream)] = ErrorItem

(***************************************************************************)
(* LruCache (dragonfly_client_storage::cache::lru_cache), the cache the    *)
(* benchmarks of benches/dragonfly-client-storage/lru_cache.rs drive.  Its *)
(* operations follow section 4.1 of the specification; the cache is used   *)
(* by one caller at a time, so each operation is one step.                 *)
(***************************************************************************)
lruUnchanged == UNCHANGED <<selVars, syncVars, dpVars, dtVars, udsVars>>

LruKeys == {"a", "b", "c"}
LruWeights == {0, 1, 2}

\* position of key k in the order, 0 if absent
LruIndex(entries, k) ==
    IF \E i \in 1..Len(entries) : entries[i].key = k
    THEN CHOOSE i \in 1..Len(entries) : entries[i].key = k
    ELSE 0

\* the order without its i-th entry
LruDetach(entries, i) ==
    SubSeq(entries, 1, i - 1) \o SubSeq(entries, i + 1, Len(entries))

\* the order with an entry attached at the most recently used end
LruAttach(entries, k, w) == <<[key |-> k, value |-> w]>> \o entries

\* len()
LruLen == Len(lru_entries)

\* LruCache::new(capacity), capacity >= 1
LruNew(capacity) ==
    /\ lru_capacity = 0
    /\ lru_capacity' = capacity
    /\ lru_entries' = <<>>
    /\ lru_op' = "new"
    /\ lru_result' = Nothing
    /\ lru_evicted' = NoKey
    /\ lruUnchanged

\* variant: a new key is attached without an eviction
LruPut_NoEvict(k, w) ==
    /\ lru_capacity >= 1
    /\ LET i == LruIndex(lru_entries, k)
       IN  IF i # 0
           THEN /\ lru_result' = [some |-> TRUE, key |-> k, value |-> lru_entries[i].value]
                /\ lru_entries' = LruAttach(LruDetach(lru_entries, i), k, w)
           ELSE /\ lru_result' = Nothing
                /\ lru_entries' = LruAttach(lru_entries, k, w)
    /\ lru_evicted' = NoKey
    /\ lru_op' = "put"
    /\ UNCHANGED lru_capacity
    /\ lruUnchanged

\* variant: an existing key keeps its weight
LruPut_KeepsWeight(k, w) ==
    /\ lru_capacity >= 1
    /\ LET i == LruIndex(lru_entries, k)
           full == Len(lru_entries) >= lru_capacity
       IN  IF i # 0
           THEN /\ lru_result' = [some |-> TRUE, key |-> k, value |-> lru_entries[i].value]
                /\ lru_entries' = LruAttach(LruDetach(lru_entries, i), k, lru_entries[i].value)
                /\ lru_evicted' = NoKey
           ELSE /\ lru_result' = Nothing
                /\ lru_entries' =
                       LruAttach(IF full THEN LruDetach(lru_entries, Len(lru_entries))
                                         ELSE lru_entries, k, w)
                /\ lru_evicted' =
                       IF full THEN lru_entries[Len(lru_entries)].key ELSE NoKey
    /\ lru_op' = "put"
    /\ UNCHANGED lru_capacity
    /\ lruUnchanged

\* put(k, w): an existing key gets the new weight and moves to the most
\* recently used end, the prior weight is returned; a new key is attached
\* there after the least recently used entry was evicted from a full cache
LruPut(k, w) ==
    /\ lru_capacity >= 1
    /\ LET i == LruIndex(lru_entries, k)
           full == Len(lru_entries) >= lru_capacity
       IN  IF i # 0
           THEN /\ lru_result' = [some |-> TRUE, key |-> k, value |-> lru_entries[i].value]
                /\ lru_entries' = LruAttach(LruDetach(lru_entries, i), k, w)
                /\ lru_evicted' = NoKey
           ELSE /\ lru_result' = Nothing
                /\ lru_entries' =
                       LruAttach(IF full THEN LruDetach(lru_entries, Len(lru_entries))
                                         ELSE lru_entries, k, w)
                /\ lru_evicted' =
                       IF full THEN lru_entries[Len(lru_entries)].key ELSE NoKey
    /\ lru_op' = "put"
    /\ UNCHANGED lru_capacity
    /\ lruUnchanged

\* get(k): the weight of a present key, which moves to the most recently
\* used end
LruGet(k) ==
    /\ lru_capacity >= 1
    /\ LET i == LruIndex(lru_entries, k)
       IN  IF i # 0
           THEN /\ lru_result' = [some |-> TRUE, key |-> k, value |-> lru_entries[i].value]
                /\ lru_entries' = LruAttach(LruDetach(lru_entries, i), k, lru_entries[i].value)
           ELSE /\ lru_result' = Nothing
                /\ UNCHANGED lru_entries
    /\ lru_op' = "get"
    /\ lru_evicted' = NoKey
    /\ UNCHANGED lru_capacity
    /\ lruUnchanged

\* variant: the most recently used entry is removed and returned
LruPopLru_Mru ==
    /\ lru_capacity >= 1
    /\ IF lru_entries # <<>>
       THEN /\ lru_result' = [some |-> TRUE,
                              key |-> lru_entries[1].key,
                              value |-> lru_entries[1].value]
            /\ lru_entries' = LruDetach(lru_entries, 1)
       ELSE /\ lru_result' = Nothing
            /\ UNCHANGED lru_entries
    /\ lru_op' = "pop_lru"
    /\ lru_evicted' = NoKey
    /\ UNCHANGED lru_capacity
    /\ lruUnchanged

\* pop_lru(): the least recently used entry is removed and returned
LruPopLru ==
    /\ lru_capacity >= 1
    /\ IF lru_entries # <<>>
       THEN /\ lru_result' = [some |-> TRUE,
                              key |-> lru_entries[Len(lru_entries)].key,
                              value |-> lru_entries[Len(lru_entries)].value]
            /\ lru_entries' = LruDetach(lru_entries, Len(lru_entries))
       ELSE /\ lru_result' = Nothing
            /\ UNCHANGED lru_entries
    /\ lru_op' = "pop_lru"
    /\ lru_evicted' = NoKey
    /\ UNCHANGED lru_capacity
    /\ lruUnchanged

\* variant: peek moves the key to the most recently used end, like get
LruPeek_Promotes(k) ==
    /\ lru_capacity >= 1
    /\ LET i == LruIndex(lru_entries, k)
       IN  IF i # 0
           THEN /\ lru_result' = [some |-> TRUE, key |-> k, value |-> lru_entries[i].value]
                /\ lru_entries' = LruAttach(LruDetach(lru_entries, i), k, lru_entries[i].value)
           ELSE /\ lru_result' = Nothing
                /\ UNCHANGED lru_entries
    /\ lru_op' = "peek"
    /\ lru_evicted' = NoKey
    /\ UNCHANGED lru_capacity
    /\ lruUnchanged

\* peek(k): the weight of a present key; the order is left alone
LruPeek(k) ==
    /\ lru_capacity >= 1
    /\ LET i == LruIndex(lru_entries, k)
       IN  lru_result' = IF i # 0
                         THEN [some |-> TRUE, key |-> k, value |-> lru_entries[i].value]
                         ELSE Nothing
    /\ lru_op' = "peek"
    /\ lru_evicted' = NoKey
    /\ UNCHANGED <<lru_capacity, lru_entries>>
    /\ lruUnchanged

\* contains(k): whether the key is present; the order is left alone
LruContains(k) ==
    /\ lru_capacity >= 1
    /\ lru_result' = [some |-> LruIndex(lru_entries, k) # 0, key |-> k, value |-> NoValue]
    /\ lru_op' = "contains"
    /\ lru_evicted' = NoKey
    /\ UNCHANGED <<lru_capacity, lru_entries>>
    /\ lruUnchanged

LruNext ==
    \/ \E capacity \in 1..MaxCapacity : LruNew(capacity) /\ UNCHANGED lru_log
    \/ \E k \in LruKeys, w \in LruWeights : LruPut(k, w) /\ UNCHANGED lru_log
    \/ \E k \in LruKeys : LruGet(k) /\ UNCHANGED lru_log
    \/ \E k \in LruKeys : LruPeek(k) /\ UNCHANGED lru_log
    \/ \E k \in LruKeys : LruContains(k) /\ UNCHANGED lru_log
    \/ LruPopLru /\ UNCHANGED lru_log

SpecLru == Init /\ [][LruNext]_vars

\* C20: a cache created with a capacity of at least one never holds more
\* entries than its capacity, whatever keys and weights were put.
C20_Capacity ==
    lru_capacity >= 1 => LruLen <= lru_capacity

\* a put of a new key with weight zero on a full cache of more than one
\* entry, which evicted the least recently used key
C20_Witness ==
    /\ lru_op = "put"
    /\ lru_capacity >= 2
    /\ LruLen = lru_capacity
    /\ lru_evicted # NoKey
    /\ lru_entries[1].value = 0

(***************************************************************************)
(* Scenarios on one cache: up to MaxPuts puts, then at most one get, peek  *)
(* or contains followed by at most one more put, then up to MaxPops pops.  *)
(* The operations are logged.                                              *)
(***************************************************************************)
Op(o, k) == [op |-> o, key |-> k]

\* the weight a scenario puts under a key
ScriptWeight(k) == CASE k = "a" -> 1 [] k = "b" -> 2 [] OTHER -> 3

LogOps == {lru_log[i].op : i \in 1..Len(lru_log)}
LogCount(o) == Cardinality({i \in 1..Len(lru_log) : lru_log[i].op = o})
LastOp == IF lru_log = <<>> THEN "none" ELSE lru_log[Len(lru_log)].op

\* keys of the cache, from most to least recently used
LruOrder == [i \in 1..Len(lru_entries) |-> lru_entries[i].key]

ScriptPut(k) ==
    /\ \/ LogOps \subseteq {"put"} /\ Len(lru_log) < MaxPuts
       \/ LastOp \in {"get", "peek", "contains"}
    /\ LruPut(k, ScriptWeight(k))
    /\ lru_log' = Append(lru_log, Op("put", k))

ScriptGet(k) ==
    /\ LogOps = {"put"}
    /\ LruGet(k)
    /\ lru_log' = Append(lru_log, Op("get", k))

ScriptPeek(k) ==
    /\ LogOps = {"put"}
    /\ LruPeek(k)
    /\ lru_log' = Append(lru_log, Op("peek", k))

ScriptContains(k) ==
    /\ LogOps = {"put"}
    /\ LruContains(k)
    /\ lru_log' = Append(lru_log, Op("contains", k))

ScriptPopLru ==
    /\ lru_log # <<>>
    /\ LogCount("pop_lru") < MaxPops
    /\ LruPopLru
    /\ lru_log' = Append(lru_log, Op("pop_lru", NoKey))

ScriptNext ==
    \/ \E capacity \in 1..MaxCapacity : LruNew(capacity) /\ UNCHANGED lru_log
    \/ \E k \in LruKeys : ScriptPut(k)
    \/ \E k \in LruKeys : ScriptGet(k)
    \/ \E k \in LruKeys : ScriptPeek(k)
    \/ \E k \in LruKeys : ScriptContains(k)
    \/ ScriptPopLru

SpecLruScript == Init /\ [][ScriptNext]_vars

\* C21: peek and contains leave the order as it is and a get of a present key
\* moves it to the most recently used end; on a cache of capacity two or more,
\* put(a); put(b); peek(a); pop_lru() pops a and put(a); put(b); get(a);
\* pop_lru() pops b; on a cache of capacity two, put(a); put(b); get(a);
\* put(c) evicts b and keeps c and a.
C21_GetPromotesPeekDoesNot ==
    /\ [][lru_op' \in {"peek", "contains"} => UNCHANGED lru_entries]_vars
    /\ [][(lru_op' = "get" /\ lru_result'.some) =>
            /\ lru_entries'[1].key = lru_result'.key
            /\ LruDetach(lru_entries', 1) =
                   LruDetach(lru_entries, LruIndex(lru_entries, lru_result'.key))]_vars
    /\ [](lru_capacity >= 2 =>
             /\ lru_log = <<Op("put", "a"), Op("put", "b"), Op("peek", "a"),
                            Op("pop_lru", NoKey)>> =>
                    lru_result.key = "a" /\ LruOrder = <<"b">>
             /\ lru_log = <<Op("put", "a"), Op("put", "b"), Op("contains", "a"),
                            Op("pop_lru", NoKey)>> =>
                    lru_result.key = "a" /\ LruOrder = <<"b">>
             /\ lru_log = <<Op("put", "a"), Op("put", "b"), Op("get", "a"),
                            Op("pop_lru", NoKey)>> =>
                    lru_result.key = "b" /\ LruOrder = <<"a">>)
    /\ [](lru_capacity = 2 =>
             (lru_log = <<Op("put", "a"), Op("put", "b"), Op("get", "a"),
                          Op("put", "c")>> =>
                    lru_evicted = "b" /\ LruOrder = <<"c", "a">>))

\* put(a); put(b); get(a); put(c) was run on a cache of capacity two
C21_Witness ==
    /\ lru_capacity = 2
    /\ lru_log = <<Op("put", "a"), Op("put", "b"), Op("get", "a"), Op("put", "c")>>

\* C22: a put of weight w on a present key returns the prior weight, leaves
\* the key at the most recently used end with weight w, the other entries in
\* their order, the length as it was, and evicts nothing; a get returns the
\* weight the order holds for the key.
C22_PutExisting ==
    /\ [][\A k \in LruKeys, w \in LruWeights :
             (LruPut(k, w) /\ LruIndex(lru_entries, k) # 0) =>
                 /\ lru_result' = [some |-> TRUE, key |-> k,
                                   value |-> lru_entries[LruIndex(lru_entries, k)].value]
                 /\ lru_entries'[1] = [key |-> k, value |-> w]
                 /\ LruDetach(lru_entries', 1) =
                        LruDetach(lru_entries, LruIndex(lru_entries, k))
                 /\ Len(lru_entries') = Len(lru_entries)
                 /\ lru_evicted' = NoKey]_vars
    /\ [][(lru_op' = "get" /\ lru_result'.some) =>
            lru_result'.value =
                lru_entries[LruIndex(lru_entries, lru_result'.key)].value]_vars

\* a put replaced the weight of the least recently used of two keys
C22_Witness ==
    /\ lru_op = "put"
    /\ lru_result.some
    /\ LruLen = 2
    /\ lru_entries[1].key = lru_result.key
    /\ lru_entries[1].value # lru_result.value

\* is_empty()
LruIsEmpty == lru_entries = <<>>

\* put("a",1); put("b",2); put("c",3) followed by n pops
PutAbcThenPops(n) ==
    <<Op("put", "a"), Op("put", "b"), Op("put", "c")>> \o
        [i \in 1..n |-> Op("pop_lru", NoKey)]

\* C23 as stated: on a cache made by new(2), after put("a",1); put("b",2);
\* put("c",3) the pops yield ("a",1), then ("b",2) with the cache not empty,
\* then ("c",3) with the cache empty.
C23_PopsAbc ==
    lru_capacity = 2 =>
        /\ lru_log = PutAbcThenPops(1) =>
               lru_result = [some |-> TRUE, key |-> "a", value |-> 1]
        /\ lru_log = PutAbcThenPops(2) =>
               lru_result = [some |-> TRUE, key |-> "b", value |-> 2] /\ ~LruIsEmpty
        /\ lru_log = PutAbcThenPops(3) =>
               lru_result = [some |-> TRUE, key |-> "c", value |-> 3] /\ LruIsEmpty

\* C23 amended: the third put evicts a, so the pops yield ("b",2) with the
\* cache not empty, then ("c",3) with the cache empty, then nothing; the
\* entries that are left are popped least recently used first.
C23_PopsBc ==
    lru_capacity = 2 =>
        /\ lru_log = PutAbcThenPops(0) =>
               lru_evicted = "a" /\ LruOrder = <<"c", "b">>
        /\ lru_log = PutAbcThenPops(1) =>
               lru_result = [some |-> TRUE, key |-> "b", value |-> 2] /\ ~LruIsEmpty
        /\ lru_log = PutAbcThenPops(2) =>
               lru_result = [some |-> TRUE, key |-> "c", value |-> 3] /\ LruIsEmpty
        /\ lru_log = PutAbcThenPops(3) =>
               lru_result = Nothing /\ LruIsEmpty

\* the three puts and the three pops were run on a cache made by new(2)
C23_Witness ==
    /\ lru_capacity = 2
    /\ lru_log = PutAbcThenPops(3)

(***************************************************************************)
(* DfdaemonDownloadServer::run.  The file system, the clients and the      *)
(* sender of the shutdown signal are the environment.                      *)
(***************************************************************************)
udsUnchanged == UNCHANGED <<selVars, syncVars, dpVars, dtVars, lruVars>>

\* an earlier run that did not reach remove_file left its socket file behind
StaleSocket ==
    /\ u_pc = "idle"
    /\ ~u_file
    /\ u_file' = TRUE
    /\ UNCHANGED <<u_pc, u_signal, u_conn>>
    /\ udsUnchanged

\* lines 152-165: run is called
Run ==
    /\ u_pc = "idle"
    /\ u_pc' = "bind"
    /\ UNCHANGED <<u_file, u_signal, u_conn>>
    /\ udsUnchanged

\* lines 166-167: UnixListener::bind(..).unwrap() creates the socket file; on
\* a path that exists it fails and run panics
Bind ==
    /\ u_pc = "bind"
    /\ IF u_file
       THEN u_pc' = "panicked" /\ UNCHANGED u_file
       ELSE u_pc' = "serving" /\ u_file' = TRUE
    /\ UNCHANGED <<u_signal, u_conn>>
    /\ udsUnchanged

\* lines 168-171: a client connects and is served
Accept(c) ==
    /\ u_pc = "serving"
    /\ u_conn[c] = "none"
    /\ u_conn' = [u_conn EXCEPT ![c] = "open"]
    /\ UNCHANGED <<u_pc, u_file, u_signal>>
    /\ udsUnchanged

\* a client is done with its connection
Disconnect(c) ==
    /\ u_conn[c] = "open"
    /\ u_conn' = [u_conn EXCEPT ![c] = "closed"]
    /\ UNCHANGED <<u_pc, u_file, u_signal>>
    /\ udsUnchanged

\* the daemon sends the shutdown signal
SendShutdown ==
    /\ ~u_signal
    /\ u_signal' = TRUE
    /\ UNCHANGED <<u_pc, u_file, u_conn>>
    /\ udsUnchanged

\* lines 172-176: shutdown.recv() returns, the server stops accepting
RecvShutdown ==
    /\ u_pc = "serving"
    /\ u_signal
    /\ u_pc' = "draining"
    /\ UNCHANGED <<u_file, u_signal, u_conn>>
    /\ udsUnchanged

\* lines 177-178: serve_with_incoming_shutdown(..).await.unwrap(): the future
\* ends once the open connections are done, or with an error, and then run
\* panics
ServeEnd(outcome) ==
    /\ \/ u_pc = "draining" /\ outcome = "Ok" /\ \A c \in Clients : u_conn[c] # "open"
       \/ u_pc \in {"serving", "draining"} /\ outcome = "Err"
    /\ u_pc' = IF outcome = "Ok" THEN "stopped" ELSE "panicked"
    /\ UNCHANGED <<u_file, u_signal, u_conn>>
    /\ udsUnchanged

\* variant: run returns without removing the socket file
RemoveFile_Skip(outcome) ==
    /\ u_pc = "stopped"
    /\ u_pc' = IF outcome = "Ok" THEN "returned" ELSE "panicked"
    /\ UNCHANGED <<u_file, u_signal, u_conn>>
    /\ udsUnchanged

\* lines 180-182: std::fs::remove_file(..).unwrap(), then run returns
RemoveFile(outcome) ==
    /\ u_pc = "stopped"
    /\ IF outcome = "Ok"
       THEN u_pc' = "returned" /\ u_file' = FALSE
       ELSE u_pc' = "panicked" /\ UNCHANGED u_file
    /\ UNCHANGED <<u_signal, u_conn>>
    /\ udsUnchanged

ServerNext ==
    \/ StaleSocket
    \/ Run
    \/ Bind
    \/ \E c \in Clients : Accept(c)
    \/ \E c \in Clients : Disconnect(c)
    \/ SendShutdown
    \/ RecvShutdown
    \/ \E outcome \in CallResults : ServeEnd(outcome)
    \/ \E outcome \in CallResults : RemoveFile(outcome)

SpecServer == Init /\ [][ServerNext]_vars

\* C24: the step that binds the listener creates the socket file; the file
\* exists while the server serves or drains; run returns only after the
\* shutdown signal was received and serving has stopped, and then the file
\* is gone.
C24_SocketFileLifecycle ==
    /\ [][(u_pc = "bind" /\ u_pc' = "serving") => (~u_file /\ u_file')]_vars
    /\ [](u_pc \in {"serving", "draining", "stopped"} => u_file)
    /\ [](u_pc = "returned" => (~u_file /\ u_signal))
    /\ [][u_pc' = "returned" => (u_pc \in {"stopped", "returned"})]_vars
    /\ [][(u_pc' = "stopped" /\ u_pc # "stopped") => u_pc = "draining"]_vars

\* run returned after it served two clients
C24_Witness ==
    /\ u_pc = "returned"
    /\ ~u_file
    /\ Cardinality({c \in Clients : u_conn[c] = "closed"}) >= 2

(***************************************************************************)
(* Further claims about the selector.                                      *)
(***************************************************************************)

\* C25: the return of a piece gives no permit back, and the end of a loop
\* iteration that declined gives none back beyond the add_permits(1) of
\* line 119.
C25_PermitConsumed ==
    /\ [][(c_pc = "return_some" /\ c_pc' = "idle") => UNCHANGED available]_vars
    /\ [][(c_pc = "yield_now" /\ c_pc' = "acquire") => UNCHANGED available]_vars

\* C26: a call returns the terminal signal only on a closed selector; a call
\* that returns on an open selector returns a piece, and a piece is taken
\* only out of a buffer that holds it.
C26_NoneOnlyAfterClose ==
    /\ [](c_result = None => closed)
    /\ [](c_pc = "return_none" => closed)
    /\ [][(c_pc # "idle" /\ c_pc' = "idle" /\ ~closed) =>
            (c_pc = "return_some" /\ c_result' = c_selected.number)]_vars
    /\ [][(c_pc = "choose" /\ c_pc' = "mark_selected") =>
            c_selected'.number \in Buffered]_vars

\* on a selector that was never closed the consumer has been handed a piece
\* and now spins on the empty buffer
C26_Witness ==
    /\ k_pc = "idle"
    /\ ~closed
    /\ Buffered = {}
    /\ returned # <<>>
    /\ c_pc = "yield_now"
    /\ p_pc = "idle"

\* C27: the insert of a number that was already returned ends at its first
\* check and leaves the buffered map, the selected map and the permits as
\* they are.
C27_InsertAfterSelectDropped ==
    [][(p_pc = "check_selected" /\ p_piece.number \in Range(returned) /\ p_pc' # p_pc) =>
         /\ p_pc' = "idle"
         /\ UNCHANGED <<collected_pieces, is_piece_selected, available>>]_vars

\* a returned number is re-inserted while the consumer is idle and another
\* piece is buffered
C27_Witness ==
    /\ p_pc = "check_selected"
    /\ p_piece.number \in Range(returned)
    /\ c_pc = "idle"
    /\ Buffered # {}

\* C28: when no call is mid-operation, a number is buffered, or marked
\* selected, or unknown to both maps, and never two of these; a returned
\* number is not buffered and is marked selected.
C28_ThreeStates ==
    Quiescent =>
        /\ \A n \in PieceNumbers :
              /\ n \in Buffered =>
                     (n \in DOMAIN is_piece_selected /\ ~is_piece_selected[n])
              /\ n \notin Buffered =>
                     (n \in DOMAIN is_piece_selected => is_piece_selected[n])
        /\ \A n \in Range(returned) :
              /\ n \notin Buffered
              /\ n \in DOMAIN is_piece_selected
              /\ is_piece_selected[n]

\* a step of the consumer
SelectTaskStep == c_pc' # c_pc

\* C29: a loop iteration whose choice is nothing or an index out of range
\* leaves both maps to the consumer's steps as they are, up to the return of
\* the terminal signal on a closed selector or to the next iteration on an
\* open one.
C29_DeclineKeepsBuffer ==
    /\ [][(c_pc = "choose" /\ c_pc' = "load_closed") =>
            UNCHANGED <<collected_pieces, is_piece_selected>>]_vars
    /\ [][(SelectTaskStep /\ c_pc \in {"load_closed", "return_none", "add_permits", "yield_now"}) =>
            UNCHANGED <<collected_pieces, is_piece_selected, returned>>]_vars
    /\ [][(SelectTaskStep /\ c_pc = "load_closed") =>
            c_pc' = (IF closed THEN "return_none" ELSE "add_permits")]_vars
    /\ [][(SelectTaskStep /\ c_pc = "return_none") =>
            (c_pc' = "idle" /\ c_result' = None)]_vars
    /\ [][(SelectTaskStep /\ c_pc = "add_permits") => c_pc' = "yield_now"]_vars
    /\ [][(SelectTaskStep /\ c_pc = "yield_now") => c_pc' = "acquire"]_vars
    /\ [][(SelectTaskStep /\ c_pc = "choose") =>
            IF c_choice' # None /\ c_choice' < Len(c_pieces)
            THEN /\ c_pc' = "mark_selected"
                 /\ c_selected' = c_pieces[c_choice' + 1]
            ELSE /\ c_pc' = "load_closed"
                 /\ UNCHANGED <<collected_pieces, is_piece_selected>>]_vars

\* a select_with call on a closed selector was answered an index past the
\* end of its snapshot of the two buffered pieces
C29_Witness ==
    /\ c_mode = "custom"
    /\ c_pc = "load_closed"
    /\ c_choice = 2
    /\ closed
    /\ Cardinality(Buffered) = 2

\* the setup steps of download_task, in the order of the code
SetupOrder == <<"task_id", "download_task_started", "hashmap_to_headermap",
                "get_content_length", "spawn">>

\* C30: the setup steps performed are a prefix of the fixed order; a request
\* without a download message returns InvalidArgument with no step performed;
\* a step is performed only after the started notification succeeded, so a
\* failed notification returns Internal with no probe and no worker; a call
\* that returned an error has spawned no worker; the worker exists and the
\* stream is returned only after all steps.
C30_SetupOrder ==
    /\ [](/\ Len(dt_calls) <= Len(SetupOrder)
          /\ dt_calls = SubSeq(SetupOrder, 1, Len(dt_calls)))
    /\ [][(dt_pc = "idle" /\ dt_pc' = "returned") =>
            (dt_status' = "InvalidArgument" /\ dt_calls' = <<>>)]_vars
    /\ []((dt_pc = "returned" /\ dt_calls = <<>>) => dt_status = "InvalidArgument")
    /\ [](Len(dt_calls) >= 3 => dt_started)
    /\ []((dt_pc = "returned" /\ Len(dt_calls) = 2) =>
             (dt_status = "Internal" /\ ~dt_started /\ w_pc = "none"))
    /\ []((dt_pc = "returned" /\ dt_status # "Stream") =>
             (w_pc = "none" /\ Len(dt_calls) < Len(SetupOrder)))
    /\ [](dt_status = "Stream" <=> dt_calls = SetupOrder)
    /\ [](w_pc # "none" => (dt_calls = SetupOrder /\ dt_started /\ dt_status = "Stream"))

\* the started notification failed and the call returned Internal
C30_Witness ==
    /\ dt_pc = "returned"
    /\ dt_status = "Internal"
    /\ dt_calls = <<"task_id", "download_task_started">>
    /\ ~dt_started

\* C31: download_task_finished and download_task_failed are called at most
\* once between them; finished only by a worker whose download of a request
\* without range succeeded, failed only by the handler after a failed
\* content-length probe (no worker then) or by a worker whose download failed.
C31_FinishedXorFailed ==
    /\ dt_failed_calls + dt_finished_calls <= 1
    /\ dt_finished_calls = 1 => (WorkerEndedSucceeded /\ ~dt_range)
    /\ dt_failed_calls = 1 =>
           \/ dt_pc = "returned" /\ dt_status = "Internal" /\ w_pc = "none"
           \/ WorkerEndedFailed

\* a worker that had pushed progress events failed and marked the task
\* failed, once
C31_Witness ==
    /\ WorkerEndedFailed
    /\ dt_failed_calls = 1
    /\ dt_finished_calls = 0
    /\ dt_stream # <<>>
    /\ dt_received >= 1

====
